---- MODULE Spec2Model ----
(***************************************************************************)
(* SmartLibrarian: the title lookup tool, the tool-calling recommendation  *)
(* loop, the query paths (HTTP /api/recommend, CLI loop, Streamlit UI)     *)
(* with the deferred media generation, and the speech-to-text endpoint     *)
(* with its transcript cache.                                              *)
(*                                                                         *)
(* Text is modelled as sequences of one-character tokens where the code    *)
(* looks inside it (titles, queries) and as opaque strings where it only   *)
(* tests emptiness (summaries, answers, transcripts).                      *)
(***************************************************************************)
EXTENDS Integers, Sequences, FiniteSets, TLC

VARIABLES
    lk,   \* one call of the title lookup tool: [title, stage, result]
    lp,   \* one invocation of recommend_with_toolcall (app/tools/recommend.py)
    req,  \* the queries put to the system, one record per query
    dirs, \* the media directories: [stt |-> names, img |-> names]
    stt   \* POST /api/stt/transcribe: [cache, disk, log]

vars == <<lk, lp, req, dirs, stt>>

(***************************************************************************)
(* Bounds                                                                  *)
(***************************************************************************)
\* longest title handed to the lookup when it is checked on its own
MaxLen == 3
\* number of queries put to the system (over all three query paths)
MaxReq == 2
\* number of uploads to /api/stt/transcribe
MaxUploads == 3

(***************************************************************************)
(* Program constants                                                       *)
(***************************************************************************)
\* `for _ in range(6)`
MaxRounds == 6

(***************************************************************************)
(* Python string operations on token sequences                             *)
(***************************************************************************)
\* "a_fw" stands for the fullwidth letter U+FF41, which NFKC maps to "a"
\* and which str.lower() leaves alone; " " is the only whitespace token.
Chars == {"a", "A", "b", " ", "a_fw"}

RECURSIVE lstrip(_)
lstrip(s) == IF s = <<>> THEN s
             ELSE IF Head(s) = " " THEN lstrip(Tail(s)) ELSE s

RECURSIVE rstrip(_)
rstrip(s) == IF s = <<>> THEN s
             ELSE IF s[Len(s)] = " " THEN rstrip(SubSeq(s, 1, Len(s) - 1)) ELSE s

\* str.strip()
strip(s) == rstrip(lstrip(s))

lower_char(c) == IF c = "A" THEN "a" ELSE c

\* str.lower()
lower(s) == [i \in 1..Len(s) |-> lower_char(s[i])]

nfkc_char(c) == IF c = "a_fw" THEN "a" ELSE c

\* unicodedata.normalize("NFKC", s).casefold()
nfkc_casefold(s) == [i \in 1..Len(s) |-> lower_char(nfkc_char(s[i]))]

\* Python's `t in s` on strings
IsSubstring(t, s) ==
    \E i \in 1..(Len(s) + 1) :
        /\ i + Len(t) - 1 <= Len(s)
        /\ SubSeq(s, i, i + Len(t) - 1) = t

Min(S) == CHOOSE x \in S : \A y \in S : x <= y

(***************************************************************************)
(* The catalog (data/book_summaries.json): a representative catalog.  A    *)
(* missing field and an empty one are the same to `b.get(k) or ...`, so    *)
(* both are "".  Record 2's title is a substring of record 1's; record 3   *)
(* has only a short text; record 4 has no text at all.                     *)
(***************************************************************************)
Books == <<
    [title |-> <<"A", "b">>, full |-> "Full1", summary |-> "", description |-> "", short |-> "Short1"],
    [title |-> <<"b">>,      full |-> "Full2", summary |-> "", description |-> "", short |-> "Short2"],
    [title |-> <<"a", "a">>, full |-> "",      summary |-> "", description |-> "", short |-> "Short3"],
    [title |-> <<"b", "a">>, full |-> "",      summary |-> "", description |-> "", short |-> ""] >>

NOT_FOUND == "Sorry, I couldn't find that title in the dataset. Please check your JSON."
NO_FULL   == "I couldn't find a full summary for this title in the dataset."

\* b.get("full") or b.get("summary") or b.get("description") or b.get("short")
BookText(b) ==
    IF b.full # "" THEN b.full
    ELSE IF b.summary # "" THEN b.summary
    ELSE IF b.description # "" THEN b.description
    ELSE b.short

(***************************************************************************)
(* app/tools/summary.py: the lookup the package app.tools exports, hence   *)
(* the one recommend.py and app.py import and the loop executes.           *)
(***************************************************************************)
get_summary_by_title(title) ==
    LET t    == lower(strip(title))
        hits == {i \in 1..Len(Books) : lower(strip(Books[i].title)) = t}
    IN  IF hits # {} THEN BookText(Books[Min(hits)]) ELSE NOT_FOUND

(***************************************************************************)
(* app/tools.py: a module of the same name as the package app/tools, which *)
(* the package shadows on import; nothing executes it.                     *)
(***************************************************************************)
_norm(s) == strip(nfkc_casefold(s))

tools_py_get_summary_by_title(title) ==
    LET t       == _norm(title)
        exact   == {i \in 1..Len(Books) : _norm(Books[i].title) = t}
        partial == {i \in 1..Len(Books) : IsSubstring(t, _norm(Books[i].title))}
        text(i) == IF BookText(Books[i]) # "" THEN BookText(Books[i]) ELSE NO_FULL
    IN  IF exact # {} THEN text(Min(exact))
        ELSE IF partial # {} THEN text(Min(partial))
        ELSE NOT_FOUND

(***************************************************************************)
(* The lookup on its own: any title of up to MaxLen tokens.                *)
(***************************************************************************)
TitleInputs == UNION {[1..n -> Chars] : n \in 0..MaxLen}

LkIdle == [title |-> <<>>, stage |-> "idle", result |-> ""]

\* the tool call `get_summary_by_title(title)` of recommend.py line 65
Lookup ==
    /\ lk.stage = "input"
    /\ lk' = [lk EXCEPT !.stage = "done", !.result = get_summary_by_title(lk.title)]
    /\ UNCHANGED <<lp, req, dirs, stt>>

(***************************************************************************)
(* app/tools/recommend.py: recommend_with_toolcall.                        *)
(*                                                                         *)
(* A chat completion is a remote call; its reply is an input.  A reply is  *)
(* a tool request (msg.tool_calls non-empty), a plain reply (msg.content,  *)
(* "" for None or empty), or the call raises.  A tool call carries the     *)
(* tool name and the parsed "title" argument ("" when absent); arguments   *)
(* are taken to be JSON objects, as the declared tool schema asks.  The    *)
(* API gives every tool call a fresh id: <<number of the chat call,        *)
(* position in the reply>>.                                                *)
(***************************************************************************)
GSBT == "get_summary_by_title"

FALLBACK_ANSWER  == "Sorry, I couldn't generate a response."
EXHAUSTED_ANSWER == "Sorry, I couldn't complete the tool interaction."

TC(n, t) == [name |-> n, title |-> t]

\* the tool requests the chat model may send
ToolReplies == {
    << TC(GSBT, <<"a", "b">>) >>,                        \* a catalog title, other case
    << TC(GSBT, <<" ", "b">>) >>,                        \* a catalog title, padded
    << TC(GSBT, <<>>) >>,                                \* no title
    << TC(GSBT, <<"b", "a">>) >>,                        \* a record with no text
    << TC("other_tool", <<"a", "b">>) >>,                \* an undeclared tool
    << TC(GSBT, <<"a">>), TC(GSBT, <<"a", "b">>) >> }    \* unknown title, then a known one

\* msg.content of a plain reply: none, whitespace only, text
PlainContents == {"", " ", "Answer1", "Answer2"}

ToolReply(tcs) == [kind |-> "tool",  content |-> "", tool_calls |-> tcs]
PlainReply(c)  == [kind |-> "plain", content |-> c,  tool_calls |-> <<>>]
RaiseReply     == [kind |-> "raise", content |-> "", tool_calls |-> <<>>]

Msg(role, content, tool_calls, tool_call_id, name) ==
    [role |-> role, content |-> content, tool_calls |-> tool_calls,
     tool_call_id |-> tool_call_id, name |-> name]

NoId == <<0, 0>>

LpIdle ==
    [status |-> "idle", calls |-> 0, messages |-> <<>>, replies |-> <<>>,
     chosen_title |-> <<>>, chosen_full |-> "", answer |-> ""]

\* lines 37-45: the seeded history and the empty captures
LoopStart ==
    [status |-> "running", calls |-> 0,
     messages |-> << Msg("system", "SYSTEM_PROMPT", <<>>, NoId, ""),
                     Msg("user", "user_query+candidates", <<>>, NoId, "") >>,
     replies |-> <<>>,
     chosen_title |-> <<>>, chosen_full |-> "", answer |-> ""]

WithIds(tcs, n) ==
    [k \in 1..Len(tcs) |-> [id |-> <<n, k>>, name |-> tcs[k].name, title |-> tcs[k].title]]

\* lines 61-77: `for tc in msg.tool_calls`
RECURSIVE ExecToolCalls(_, _, _)
ExecToolCalls(s, tcs, k) ==
    IF k > Len(tcs) THEN s
    ELSE IF tcs[k].name = GSBT
    THEN LET title        == strip(tcs[k].title)
             full_summary == get_summary_by_title(title)
             s1 == [s EXCEPT
                      !.chosen_title = IF title # <<>> THEN title ELSE @,
                      !.chosen_full  = IF full_summary # "" THEN full_summary ELSE @,
                      !.messages     = Append(@, Msg("tool", full_summary, <<>>, tcs[k].id, GSBT))]
         IN  ExecToolCalls(s1, tcs, k + 1)
    ELSE ExecToolCalls(s, tcs, k + 1)

\* faulty variant: the round bound is off by one
OnToolReply_OffByOne(s, tcs) ==
    LET n   == s.calls + 1
        ids == WithIds(tcs, n)
        s1  == [s EXCEPT !.calls    = n,
                         !.replies  = Append(@, ToolReply(tcs)),
                         !.messages = Append(@, Msg("assistant", "", ids, NoId, ""))]
        s2  == ExecToolCalls(s1, ids, 1)
    IN  IF n = MaxRounds + 1
        THEN [s2 EXCEPT !.status = "returned", !.answer = EXHAUSTED_ANSWER]
        ELSE s2

\* lines 57-78, and line 82 when this was the last round
OnToolReply(s, tcs) ==
    LET n   == s.calls + 1
        ids == WithIds(tcs, n)
        s1  == [s EXCEPT !.calls    = n,
                         !.replies  = Append(@, ToolReply(tcs)),
                         !.messages = Append(@, Msg("assistant", "", ids, NoId, ""))]
        s2  == ExecToolCalls(s1, ids, 1)
    IN  IF n = MaxRounds
        THEN [s2 EXCEPT !.status = "returned", !.answer = EXHAUSTED_ANSWER]
        ELSE s2

\* faulty variant: the answer is returned without the captured title and summary
OnPlainReply_NoCaptures(s, c) ==
    [s EXCEPT !.calls        = @ + 1,
              !.replies      = Append(@, PlainReply(c)),
              !.status       = "returned",
              !.answer       = IF c # "" THEN c ELSE FALLBACK_ANSWER,
              !.chosen_title = <<>>,
              !.chosen_full  = ""]

\* line 80
OnPlainReply(s, c) ==
    [s EXCEPT !.calls   = @ + 1,
              !.replies = Append(@, PlainReply(c)),
              !.status  = "returned",
              !.answer  = IF c # "" THEN c ELSE FALLBACK_ANSWER]

\* faulty variant: the error is caught and the round goes on to the next
OnRaise_Retried(s) ==
    [s EXCEPT !.calls   = @ + 1,
              !.replies = Append(@, RaiseReply)]

\* lines 48-54 raising: nothing catches it
OnRaise(s) ==
    [s EXCEPT !.calls   = @ + 1,
              !.replies = Append(@, RaiseReply),
              !.status  = "raised"]

\* one chat completion and what the loop does with its reply
LoopStep(s, r) ==
    IF r.kind = "tool" THEN OnToolReply(s, r.tool_calls)
    ELSE IF r.kind = "plain" THEN OnPlainReply(s, r.content)
    ELSE OnRaise(s)

ChatToolReply ==
    /\ lp.status = "running"
    /\ \E tcs \in ToolReplies : lp' = LoopStep(lp, ToolReply(tcs))
    /\ UNCHANGED <<lk, req, dirs, stt>>

ChatPlainReply ==
    /\ lp.status = "running"
    /\ \E c \in PlainContents : lp' = LoopStep(lp, PlainReply(c))
    /\ UNCHANGED <<lk, req, dirs, stt>>

ChatRaises ==
    /\ lp.status = "running"
    /\ lp' = LoopStep(lp, RaiseReply)
    /\ UNCHANGED <<lk, req, dirs, stt>>

(***************************************************************************)
(* The chat scripts a whole invocation of the loop is run against when it  *)
(* is called from a request handler: the replies of the successive chat    *)
(* completions.  Every script ends the loop.                               *)
(***************************************************************************)
ChatScripts == {
    << PlainReply("Answer1") >>,
    << ToolReply(<< TC(GSBT, <<" ", "b">>) >>), PlainReply("Answer2") >>,
    << ToolReply(<< TC(GSBT, <<"a", "b">>) >>), PlainReply(" ") >>,
    << RaiseReply >> }

RECURSIVE RunLoop(_, _)
RunLoop(s, script) ==
    IF s.status # "running" \/ script = <<>> THEN s
    ELSE RunLoop(LoopStep(s, Head(script)), Tail(script))

\* app/tools/recommend.py, the whole call: (answer, chosen_title, chosen_full) or raises
recommend_with_toolcall(script) == RunLoop(LoopStart, script)

(***************************************************************************)
(* app/app.py: the CLI/UI copy of the loop.  Same rounds, same tool, no    *)
(* capture of title or summary; it returns the answer text alone.          *)
(***************************************************************************)
RECURSIVE AppExecToolCalls(_, _, _)
AppExecToolCalls(s, tcs, k) ==
    IF k > Len(tcs) THEN s
    ELSE IF tcs[k].name = GSBT
    THEN LET title        == strip(tcs[k].title)
             full_summary == get_summary_by_title(title)
         IN  AppExecToolCalls(
                 [s EXCEPT !.messages = Append(@, Msg("tool", full_summary, <<>>, tcs[k].id, GSBT))],
                 tcs, k + 1)
    ELSE AppExecToolCalls(s, tcs, k + 1)

AppLoopStep(s, r) ==
    IF r.kind = "tool"
    THEN LET n   == s.calls + 1
             ids == WithIds(r.tool_calls, n)
             s1  == [s EXCEPT !.calls    = n,
                              !.messages = Append(@, Msg("assistant", "", ids, NoId, ""))]
             s2  == AppExecToolCalls(s1, ids, 1)
         IN  IF n = MaxRounds
             THEN [s2 EXCEPT !.status = "returned", !.answer = EXHAUSTED_ANSWER]
             ELSE s2
    ELSE IF r.kind = "plain"
    THEN [s EXCEPT !.calls  = @ + 1,
                   !.status = "returned",
                   !.answer = IF r.content # "" THEN r.content ELSE FALLBACK_ANSWER]
    ELSE [s EXCEPT !.calls = @ + 1, !.status = "raised"]

RECURSIVE AppRunLoop(_, _)
AppRunLoop(s, script) ==
    IF s.status # "running" \/ script = <<>> THEN s
    ELSE AppRunLoop(AppLoopStep(s, Head(script)), Tail(script))

app_py_recommend_with_toolcall(script) == AppRunLoop(LoopStart, script)

(***************************************************************************)
(* Queries and the two gates.  A query is a sequence of words and          *)
(* whitespace tokens: whitespace only, a plain word, a word of the         *)
(* profanity word list, one of app.py's BAD_WORDS.  None of them is the    *)
(* CLI's quit/exit, which ends the CLI loop before any gate.               *)
(***************************************************************************)
Queries == { <<" ">>, <<"book">>, <<"damn">>, <<"hate">> }

\* the word list of better_profanity with the local extension lists (some
\* hundreds of words): a representative member, none of BAD_WORDS
WordList == {"damn"}

\* app/tools/filters.py: profanity.contains_profanity(text or "")
contains_profanity(text) == \E k \in 1..Len(text) : text[k] \in WordList

\* app/app.py line 44
BAD_WORDS == {"idiot", "stupid", "hate"}

\* app/app.py lines 45-47: the bad words hold no whitespace, so one of them
\* is in the text iff it is in one of its words
is_clean(text) == ~ \E k \in 1..Len(text) : lower_char(text[k]) \in BAD_WORDS

(***************************************************************************)
(* Retrieval.  col.query is a remote call (the embedding of the query):    *)
(* it raises, or answers with the nearest records, closest first.          *)
(***************************************************************************)
Res(raises, ids) == [raises |-> raises, ids |-> ids]

NoRes == Res(FALSE, <<>>)

RagResults == { Res(TRUE, <<>>), Res(FALSE, <<>>), Res(FALSE, <<2, 1>>) }

\* app/app.py lines 124-131: reshapes the answer into (title, distance) pairs
rag_search(res) == [k \in 1..Len(res.ids) |-> Books[res.ids[k]].title]

(***************************************************************************)
(* Fixed messages                                                          *)
(***************************************************************************)
EMPTY_QUERY_API == "Empty query."
REFUSAL_API     == "Sa pastram un ton respectuos, te rog reformuleaza"
NO_MATCH_API    == "Nu am gasit potriviri. Adauga cateva detalii."
REFUSAL_CLI     == "Let's keep it respectful. Please rephrase"
NO_MATCH_CLI    == "I couldn't find matches. Can you add more detail?"
BYE_CLI         == "Bye!"
EMPTY_QUERY_UI  == "Please type something first."
REFUSAL_UI      == "Please keep it respectful."
NO_MATCH_UI     == "No good matches. Try adding more detail."
ERROR_UI        == "Something went wrong"

(***************************************************************************)
(* app/api.py: POST /api/recommend                                         *)
(***************************************************************************)
\* hashlib.sha1(...).hexdigest(): injective on the texts of the model
_hash_text(x) == <<"sha1", x>>

NoResp == [answer |-> "", title |-> <<>>, audio_url |-> <<>>, image_url |-> <<>>,
           candidates |-> <<>>]

\* the early returns: title=None, audio_url=None, image_url=None, candidates=[]
BareResponse(text) == [NoResp EXCEPT !.answer = text]

\* what one run of a handler comes to
Outcome(kind, resp, rag, chat, sched, answer, title) ==
    [kind |-> kind, resp |-> resp, ragCalls |-> rag, chatCalls |-> chat,
     scheduled |-> sched, answer |-> answer, picked_title |-> title]

\* faulty variant: the empty-candidates test never fires
NoHits_Never(hits) == FALSE

\* line 100: `if not hits`
NoHits(hits) == hits = <<>>

\* lines 88-147
recommend(query, res, script) ==
    LET q == strip(query) IN
    IF q = <<>> THEN
        Outcome("response", BareResponse(EMPTY_QUERY_API), 0, 0, FALSE, "", <<>>)
    ELSE IF contains_profanity(q) THEN
        Outcome("response", BareResponse(REFUSAL_API), 0, 0, FALSE, "", <<>>)
    ELSE IF res.raises THEN
        Outcome("raised", NoResp, 1, 0, FALSE, "", <<>>)
    ELSE LET hits == rag_search(res) IN
    IF NoHits(hits) THEN
        Outcome("response", BareResponse(NO_MATCH_API), 1, 0, FALSE, "", <<>>)
    ELSE LET r == recommend_with_toolcall(script) IN
    IF r.status = "raised" THEN
        Outcome("raised", NoResp, 1, r.calls, FALSE, "", <<>>)
    ELSE LET answer       == r.answer
             picked_title == r.chosen_title
             audio_url    == <<"/static/stt", _hash_text(answer)>>
             image_url    == IF picked_title # <<>>
                             THEN <<"/static/img", _hash_text(<<"cover:">> \o picked_title)>>
                             ELSE <<>>
         IN  Outcome("response",
                     [answer |-> answer, title |-> picked_title, audio_url |-> audio_url,
                      image_url |-> image_url, candidates |-> hits],
                     1, r.calls, TRUE, answer, picked_title)

(***************************************************************************)
(* app/app.py: one turn of the CLI loop, one click in the UI               *)
(***************************************************************************)
\* lines 224-245
run_cli(query, res, script) ==
    LET q == strip(query) IN
    IF lower(q) \in { <<"quit">>, <<"exit">> } THEN
        Outcome("response", BareResponse(BYE_CLI), 0, 0, FALSE, "", <<>>)
    ELSE IF ~ is_clean(q) THEN
        Outcome("response", BareResponse(REFUSAL_CLI), 0, 0, FALSE, "", <<>>)
    ELSE IF res.raises THEN
        Outcome("raised", NoResp, 1, 0, FALSE, "", <<>>)
    ELSE IF rag_search(res) = <<>> THEN
        Outcome("response", BareResponse(NO_MATCH_CLI), 1, 0, FALSE, "", <<>>)
    ELSE LET r == app_py_recommend_with_toolcall(script) IN
    IF r.status = "raised" THEN
        Outcome("raised", NoResp, 1, r.calls, FALSE, "", <<>>)
    ELSE Outcome("response", BareResponse(r.answer), 1, r.calls, FALSE, "", <<>>)

\* lines 269-289
run_ui(query, res, script) ==
    IF strip(query) = <<>> THEN
        Outcome("response", BareResponse(EMPTY_QUERY_UI), 0, 0, FALSE, "", <<>>)
    ELSE IF ~ is_clean(query) THEN
        Outcome("response", BareResponse(REFUSAL_UI), 0, 0, FALSE, "", <<>>)
    ELSE IF res.raises THEN
        Outcome("raised", NoResp, 1, 0, FALSE, "", <<>>)
    ELSE IF rag_search(res) = <<>> THEN
        Outcome("response", BareResponse(NO_MATCH_UI), 1, 0, FALSE, "", <<>>)
    ELSE LET r == app_py_recommend_with_toolcall(script) IN
    IF r.status = "raised" THEN
        Outcome("response", BareResponse(ERROR_UI), 1, r.calls, FALSE, "", <<>>)
    ELSE Outcome("response", BareResponse(r.answer), 1, r.calls, FALSE, "", <<>>)

(***************************************************************************)
(* The state of one query                                                  *)
(*   pc   "new" | "returned" (the HTTP handler returned its response)      *)
(*        | "sent" (the client has the response / the text is on screen)   *)
(*        | "raised" (an exception left the handler)                       *)
(*   tpc  the deferred task _bg_generate: "none" | "queued" | "tts_call"   *)
(*        | "img_check" | "img_call" | "done"                              *)
(*   ttsFailed, imgFailed  the task's speech (image) call, or the write or *)
(*        the rename after it, raised                                      *)
(***************************************************************************)
Reqs == 1..MaxReq

ReqNew ==
    [pc |-> "new", path |-> "none", query |-> <<>>, res |-> NoRes, resp |-> NoResp,
     ragCalls |-> 0, chatCalls |-> 0, answer |-> "", picked_title |-> <<>>,
     tpc |-> "none", ttsCalls |-> 0, imgCalls |-> 0, ttsFailed |-> FALSE, imgFailed |-> FALSE]

\* the request after its handler ran with outcome o
Handled(path, query, res, o, pcAfter) ==
    [ReqNew EXCEPT !.pc = IF o.kind = "raised" THEN "raised" ELSE pcAfter,
                   !.path = path, !.query = query,
                   !.res = IF o.ragCalls > 0 THEN res ELSE NoRes,
                   !.resp = o.resp,
                   !.ragCalls = o.ragCalls, !.chatCalls = o.chatCalls,
                   !.answer = o.answer, !.picked_title = o.picked_title,
                   !.tpc = IF o.scheduled THEN "queued" ELSE "none"]

\* POST /api/recommend: the handler runs to its return (or raises)
Recommend(i) ==
    /\ req[i].pc = "new"
    /\ \E query \in Queries, res \in RagResults, script \in ChatScripts :
          req' = [req EXCEPT ![i] =
                    Handled("http", query, res, recommend(query, res, script), "returned")]
    /\ UNCHANGED <<lk, lp, dirs, stt>>

\* the framework sends the response the handler returned
SendResponse(i) ==
    /\ req[i].pc = "returned"
    /\ req' = [req EXCEPT ![i].pc = "sent"]
    /\ UNCHANGED <<lk, lp, dirs, stt>>

\* one turn of the CLI loop
CliTurn(i) ==
    /\ req[i].pc = "new"
    /\ \E query \in Queries, res \in RagResults, script \in ChatScripts :
          req' = [req EXCEPT ![i] =
                    Handled("cli", query, res, run_cli(query, res, script), "sent")]
    /\ UNCHANGED <<lk, lp, dirs, stt>>

\* one click on "Recommend" in the UI
UiClick(i) ==
    /\ req[i].pc = "new"
    /\ \E query \in Queries, res \in RagResults, script \in ChatScripts :
          req' = [req EXCEPT ![i] =
                    Handled("ui", query, res, run_ui(query, res, script), "sent")]
    /\ UNCHANGED <<lk, lp, dirs, stt>>

(***************************************************************************)
(* app/api.py lines 118-139: the deferred task _bg_generate.  A background *)
(* task of the framework runs once the response has been sent.  Each part  *)
(* of the task is two steps: the exists() check, which starts the remote   *)
(* call when the file is missing, and the end of that call with the write  *)
(* and the rename.  The file the synthesis function writes first has a     *)
(* random name nothing else reads, so only the rename shows on disk.       *)
(***************************************************************************)
\* faulty variant: the generation starts while the handler has not been answered
TaskMayStart_BeforeSend(r) == r.tpc = "queued"

\* background.add_task(_bg_generate): started by the framework after the response
TaskMayStart(r) == r.pc = "sent" /\ r.tpc = "queued"

\* faulty variant: the first try lets the exception out of the task
AfterTtsError_Escapes == "crashed"

\* `except Exception: pass` of the first try: on to the cover part
AfterTtsError == "img_check"

\* `except Exception: pass` of the second try: the task ends
AfterImgError == "done"

audio_name(r) == _hash_text(r.answer)
img_name(r)   == _hash_text(<<"cover:">> \o r.picked_title)

\* `(text or "").strip()` empty, for the answer texts of the model
IsBlankText(text) == text \in {"", " "}

\* faulty variant: no exists() test, the remote call is always made
NeedsCall_Always(name, dir) == TRUE

\* variant: the tasks share a lock, and a task skips its call while a
\* generation call is in flight
NeedsCall_Locked(name, dir) ==
    /\ name \notin dir
    /\ ~ \E j \in Reqs : req[j].tpc \in {"tts_call", "img_call"}

\* have the remote call (a file at `name` is missing) or skip it
NeedsCall(name, dir) == name \notin dir

\* lines 121-123: `if not apath.exists()`, then synthesize_tts
\* (media_tts.py lines 17-29) raises ValueError on blank text or starts
\* the remote speech call
BgTtsCheck(i) ==
    /\ TaskMayStart(req[i])
    /\ req' = [req EXCEPT ![i] =
                 IF ~ NeedsCall(audio_name(req[i]), dirs.stt) THEN [@ EXCEPT !.tpc = "img_check"]
                 ELSE IF IsBlankText(req[i].answer) THEN [@ EXCEPT !.tpc = AfterTtsError]
                 ELSE [@ EXCEPT !.tpc = "tts_call", !.ttsCalls = @ + 1]]
    /\ UNCHANGED <<lk, lp, dirs, stt>>

\* lines 123-125: the speech call raises, or returns and the audio is
\* written and renamed to apath; the write or the rename may raise too
BgTtsDone(i) ==
    /\ req[i].tpc = "tts_call"
    /\ \E ok \in BOOLEAN :
          /\ req' = [req EXCEPT ![i].tpc = IF ok THEN "img_check" ELSE AfterTtsError,
                                ![i].ttsFailed = ~ ok]
          /\ dirs' = IF ok THEN [dirs EXCEPT !.stt = @ \cup {audio_name(req[i])}] ELSE dirs
    /\ UNCHANGED <<lk, lp, stt>>

\* lines 129-133: `if picked_title and img_name`, `if not ipath.exists()`,
\* get_book_meta_by_title (local; ("", []) when it finds nothing), then
\* generate_cover_image (images.py lines 29-64) starts the remote image call
BgImgCheck(i) ==
    /\ req[i].tpc = "img_check"
    /\ req' = [req EXCEPT ![i] =
                 IF req[i].picked_title = <<>> THEN [@ EXCEPT !.tpc = "done"]
                 ELSE IF ~ NeedsCall(img_name(req[i]), dirs.img) THEN [@ EXCEPT !.tpc = "done"]
                 ELSE [@ EXCEPT !.tpc = "img_call", !.imgCalls = @ + 1]]
    /\ UNCHANGED <<lk, lp, dirs, stt>>

\* lines 133-135: the image call raises, or returns and the image is
\* written and renamed to ipath; the write or the rename may raise too
BgImgDone(i) ==
    /\ req[i].tpc = "img_call"
    /\ \E ok \in BOOLEAN :
          /\ req' = [req EXCEPT ![i].tpc = IF ok THEN "done" ELSE AfterImgError,
                                ![i].imgFailed = ~ ok]
          /\ dirs' = IF ok THEN [dirs EXCEPT !.img = @ \cup {img_name(req[i])}] ELSE dirs
    /\ UNCHANGED <<lk, lp, stt>>

(***************************************************************************)
(* app/api.py lines 22-45 and 150-172: POST /api/stt/transcribe and the    *)
(* transcript cache.  The handler is `async def` with no await in it, so   *)
(* one upload is handled to its end before the next.                       *)
(*   cache  STT_CACHE: content hash -> transcript                          *)
(*   disk   the mapping last written to transcripts.json                   *)
(*   log    one entry per upload handled: the upload and its response      *)
(***************************************************************************)
\* the uploads: a client file name and the bytes of the audio
Filenames  == { [stem |-> "a", suffix |-> ".mp3"],
                [stem |-> "b", suffix |-> ".WAV"],
                [stem |-> "c", suffix |-> ".txt"] }
AudioBytes == {"bytes1", "bytes2"}

\* what the remote transcription returns when it does not raise
Transcripts == {"", "hello", "hola"}

ALLOWED_EXT == {".mp3", ".wav", ".m4a", ".webm", ".ogg"}

\* (Path(file.filename).suffix or "").lower()
lower_suffix(x) == IF x = ".WAV" THEN ".wav" ELSE x

\* hashlib.sha1 over the bytes of the saved file: injective on AudioBytes
_sha1_file(bytes) == <<"sha1", bytes>>

\* STT_CACHE.get(key): None is NoTranscript
NoTranscript == "None"

_stt_cache_get(cache, bytes) ==
    IF _sha1_file(bytes) \in DOMAIN cache THEN cache[_sha1_file(bytes)] ELSE NoTranscript

\* faulty variant: the transcript is not stored
_stt_cache_put_Dropped(cache, bytes, text) == cache

\* faulty variant: storing a transcript evicts the entries of other uploads
_stt_cache_put_Evicting(cache, bytes, text) ==
    [h \in {_sha1_file(bytes)} |-> text]

\* STT_CACHE[key] = text
_stt_cache_put(cache, bytes, text) ==
    [h \in DOMAIN cache \cup {_sha1_file(bytes)} |->
        IF h = _sha1_file(bytes) THEN text ELSE cache[h]]

SttResp(status, text, cached, remote) ==
    [status |-> status, text |-> text, cached |-> cached, remoteCalls |-> remote]

\* lines 150-172.  `remote` is the remote transcription's outcome (raises, or
\* a text); `wrote` tells whether rewriting transcripts.json succeeded
\* (line 44 swallows its failure).  The result: the response, the cache and
\* the cache file after the request.
stt_transcribe(s, file, bytes, remote, wrote) ==
    LET ext == lower_suffix(file.suffix) IN
    IF ext \notin ALLOWED_EXT THEN
        [resp |-> SttResp("400", "Unsupported audio type", FALSE, 0),
         cache |-> s.cache, disk |-> s.disk]
    ELSE LET cached == _stt_cache_get(s.cache, bytes) IN
    IF cached # NoTranscript THEN
        [resp |-> SttResp("200", cached, TRUE, 0), cache |-> s.cache, disk |-> s.disk]
    ELSE IF remote.raises THEN
        [resp |-> SttResp("500", "STT failed", FALSE, 1), cache |-> s.cache, disk |-> s.disk]
    ELSE LET cache2 == _stt_cache_put(s.cache, bytes, remote.text) IN
        [resp |-> SttResp("200", remote.text, FALSE, 1),
         cache |-> cache2, disk |-> IF wrote THEN cache2 ELSE s.disk]

RemoteOutcomes ==
    {[raises |-> TRUE, text |-> ""]} \cup {[raises |-> FALSE, text |-> t] : t \in Transcripts}

SttTranscribe ==
    /\ Len(stt.log) < MaxUploads
    /\ \E file \in Filenames, bytes \in AudioBytes, remote \in RemoteOutcomes, wrote \in BOOLEAN :
          LET r == stt_transcribe(stt, file, bytes, remote, wrote) IN
          stt' = [cache |-> r.cache, disk |-> r.disk,
                  log |-> Append(stt.log, [file |-> file, bytes |-> bytes, resp |-> r.resp])]
    /\ UNCHANGED <<lk, lp, req, dirs>>

EmptyCache == [h \in {} |-> ""]

SttIdle == [cache |-> EmptyCache, disk |-> EmptyCache, log |-> <<>>]

(***************************************************************************)
(* Specifications                                                          *)
(***************************************************************************)
ReqIdle == [i \in Reqs |-> ReqNew]

DirsEmpty == [stt |-> {}, img |-> {}]

InitLookup ==
    /\ lk \in {[title |-> t, stage |-> "input", result |-> ""] : t \in TitleInputs}
    /\ lp = LpIdle
    /\ req = ReqIdle
    /\ dirs = DirsEmpty
    /\ stt = SttIdle

NextLookup == Lookup

SpecLookup == InitLookup /\ [][NextLookup]_vars

InitLoop ==
    /\ lk = LkIdle
    /\ lp = LoopStart
    /\ req = ReqIdle
    /\ dirs = DirsEmpty
    /\ stt = SttIdle

NextLoop ==
    \/ ChatToolReply
    \/ ChatPlainReply
    \/ ChatRaises

SpecLoop == InitLoop /\ [][NextLoop]_vars

\* the query paths and the deferred tasks
Init ==
    /\ lk = LkIdle
    /\ lp = LpIdle
    /\ req = ReqIdle
    /\ dirs = DirsEmpty
    /\ stt = SttIdle

Next ==
    \E i \in Reqs :
        \/ Recommend(i)
        \/ SendResponse(i)
        \/ CliTurn(i)
        \/ UiClick(i)
        \/ BgTtsCheck(i)
        \/ BgTtsDone(i)
        \/ BgImgCheck(i)
        \/ BgImgDone(i)

Spec == Init /\ [][Next]_vars

\* the speech-to-text endpoint; the cache starts as transcripts.json was left
InitStt ==
    /\ lk = LkIdle
    /\ lp = LpIdle
    /\ req = ReqIdle
    /\ dirs = DirsEmpty
    /\ \E c \in {EmptyCache, _stt_cache_put(EmptyCache, "bytes2", "old")} :
          stt = [cache |-> c, disk |-> c, log |-> <<>>]

NextStt == SttTranscribe

SpecStt == InitStt /\ [][NextStt]_vars

(***************************************************************************)
(* Claims                                                                  *)
(***************************************************************************)
NonEmptySeq(x) == x # <<>>
NonEmptyText(x) == x # ""
LastOr(xs, default) == IF xs = <<>> THEN default ELSE xs[Len(xs)]

RECURSIVE AllToolCalls(_)
AllToolCalls(replies) ==
    IF replies = <<>> THEN <<>>
    ELSE Head(replies).tool_calls \o AllToolCalls(Tail(replies))

IsLookupCall(tc) == tc.name = GSBT
LookupCalls(replies) == SelectSeq(AllToolCalls(replies), IsLookupCall)

\* the last non-empty title the lookup tool was asked for, "" if none
LastCapturedTitle(replies) ==
    LET cs == LookupCalls(replies)
    IN  LastOr(SelectSeq([k \in 1..Len(cs) |-> strip(cs[k].title)], NonEmptySeq), <<>>)

\* the last non-empty text the lookup tool returned, "" if none
LastCapturedSummary(replies) ==
    LET cs == LookupCalls(replies)
    IN  LastOr(SelectSeq([k \in 1..Len(cs) |-> get_summary_by_title(strip(cs[k].title))],
                         NonEmptyText), "")

AllToolRequests(replies) == \A k \in 1..Len(replies) : replies[k].kind = "tool"

Handled_(i) == req[i].pc # "new"

NoTitleUrlsCandidates(r) ==
    /\ r.title = <<>>
    /\ r.audio_url = <<>>
    /\ r.image_url = <<>>
    /\ r.candidates = <<>>

\* C2: on every query path a query the profanity gate (the word-list
\* predicate contains_profanity) flags is never passed to retrieval or to the
\* chat model, no deferred task is scheduled, and the fixed refusal is
\* returned with no title, no URLs and no candidates.
C2_FlaggedNeverProcessed ==
    \A i \in Reqs :
        (Handled_(i) /\ contains_profanity(strip(req[i].query))) =>
            /\ req[i].ragCalls = 0
            /\ req[i].chatCalls = 0
            /\ req[i].tpc = "none"
            /\ req[i].resp.answer \in {REFUSAL_API, REFUSAL_CLI, REFUSAL_UI}
            /\ NoTitleUrlsCandidates(req[i].resp)

\* C2, read with each path's own gate (contains_profanity on HTTP, is_clean
\* in the CLI and the UI): the query the path's gate flags goes nowhere.
C2_OwnGateRefuses ==
    \A i \in Reqs :
        (/\ Handled_(i)
         /\ strip(req[i].query) # <<>>
         /\ IF req[i].path = "http" THEN contains_profanity(strip(req[i].query))
                                    ELSE ~ is_clean(strip(req[i].query))) =>
            /\ req[i].ragCalls = 0
            /\ req[i].chatCalls = 0
            /\ req[i].tpc = "none"
            /\ req[i].resp.answer \in {REFUSAL_API, REFUSAL_CLI, REFUSAL_UI}
            /\ NoTitleUrlsCandidates(req[i].resp)

\* C3: on every query path an empty or whitespace-only query gets the fixed
\* "empty query" response with no candidates, and neither retrieval nor the
\* chat model is called.
C3_EmptyQueryRejected ==
    \A i \in Reqs :
        (Handled_(i) /\ strip(req[i].query) = <<>>) =>
            /\ req[i].ragCalls = 0
            /\ req[i].chatCalls = 0
            /\ req[i].resp.answer \in {EMPTY_QUERY_API, EMPTY_QUERY_UI}
            /\ req[i].resp.candidates = <<>>

NoMatchMessage(path) ==
    IF path = "http" THEN NO_MATCH_API
    ELSE IF path = "cli" THEN NO_MATCH_CLI
    ELSE NO_MATCH_UI

\* C4: when retrieval returns zero candidates the path's fixed "no matches"
\* message is returned, the chat model is never invoked and no media
\* generation is scheduled or run.
C4_NoHitsNoChat ==
    \A i \in Reqs :
        (req[i].ragCalls > 0 /\ ~ req[i].res.raises /\ rag_search(req[i].res) = <<>>) =>
            /\ req[i].pc \in {"returned", "sent"}
            /\ req[i].resp.answer = NoMatchMessage(req[i].path)
            /\ req[i].resp.candidates = <<>>
            /\ req[i].chatCalls = 0
            /\ req[i].tpc = "none"
            /\ req[i].ttsCalls = 0
            /\ req[i].imgCalls = 0

\* a clean, non-empty query on the HTTP path whose retrieval came back empty
C4_Witness ==
    \E i \in Reqs :
        /\ req[i].path = "http"
        /\ req[i].pc = "sent"
        /\ strip(req[i].query) # <<>>
        /\ ~ contains_profanity(strip(req[i].query))
        /\ req[i].ragCalls = 1
        /\ rag_search(req[i].res) = <<>>
        /\ req[i].resp.answer = NO_MATCH_API

\* the record the three-step resolution picks: exact match after case and
\* Unicode normalization, else the first substring match, else none (0)
ThreeStepRecord(title) ==
    LET t       == _norm(title)
        exact   == {i \in 1..Len(Books) : _norm(Books[i].title) = t}
        partial == {i \in 1..Len(Books) : IsSubstring(t, _norm(Books[i].title))}
    IN  IF exact # {} THEN Min(exact)
        ELSE IF partial # {} THEN Min(partial)
        ELSE 0

\* C5: the lookup the loop executes resolves a requested title by exact
\* match after case/Unicode normalization, else by substring match against
\* the catalog titles, else to the fixed not-found string.
C5_ThreeStepLookup ==
    (lk.stage = "done" /\ strip(lk.title) # <<>>) =>
        lk.result = IF ThreeStepRecord(lk.title) = 0 THEN NOT_FOUND
                    ELSE BookText(Books[ThreeStepRecord(lk.title)])

SameTitle(i, j) ==
    /\ i # j
    /\ req[i].path = "http"
    /\ req[j].path = "http"
    /\ req[i].picked_title # <<>>
    /\ req[i].picked_title = req[j].picked_title

\* request j's task makes its exists() test for the cover in this step
ChecksCover(j) == req[j].tpc = "img_check" /\ req'[j].tpc # "img_check"

SameTitleSameUrl ==
    \A i, j \in Reqs : SameTitle(i, j) => req[i].resp.image_url = req[j].resp.image_url

\* C6 as stated: when the deferred generation for the same title runs twice
\* in sequence, the first run having made the remote cover call, the second
\* run makes none (one call in total) and both responses carry the same
\* image_url.
C6_SecondRunSkipped ==
    [][ \A i, j \in Reqs :
          (/\ SameTitle(i, j)
           /\ req[i].tpc = "done"
           /\ req[i].imgCalls = 1
           /\ ChecksCover(j)) =>
              /\ req'[j].imgCalls = req[j].imgCalls
              /\ SameTitleSameUrl' ]_vars

\* C6 amended: the second run is skipped when the first run left the image
\* at the hash-derived path.
C6_SecondRunSkippedIfStored ==
    [][ \A i, j \in Reqs :
          (/\ SameTitle(i, j)
           /\ req[i].tpc = "done"
           /\ img_name(req[i]) \in dirs.img
           /\ ChecksCover(j)) =>
              /\ req'[j].imgCalls = req[j].imgCalls
              /\ req'[j].tpc = "done"
              /\ SameTitleSameUrl' ]_vars

\* two runs for one title, one after the other: one remote call in all
C6_Witness ==
    \E i, j \in Reqs :
        /\ SameTitle(i, j)
        /\ req[i].tpc = "done"
        /\ req[j].tpc = "done"
        /\ req[i].imgCalls = 1
        /\ req[j].imgCalls = 0
        /\ img_name(req[i]) \in dirs.img
        /\ req[i].resp.image_url = req[j].resp.image_url
        /\ req[i].resp.image_url # <<>>

Accepted(e) == lower_suffix(e.file.suffix) \in ALLOWED_EXT

\* C7 as stated: of two successive uploads with the same bytes, the second
\* makes no remote call and returns the first one's transcript, cached=true.
C7_SecondUploadCached ==
    \A k \in 1..(Len(stt.log) - 1) :
        (/\ Accepted(stt.log[k])
         /\ Accepted(stt.log[k + 1])
         /\ stt.log[k].bytes = stt.log[k + 1].bytes) =>
            /\ stt.log[k + 1].resp.remoteCalls = 0
            /\ stt.log[k + 1].resp.cached
            /\ stt.log[k + 1].resp.text = stt.log[k].resp.text

\* C7 amended: ... when the first upload was answered with a transcript.
C7_SecondUploadCachedAfterSuccess ==
    \A k \in 1..(Len(stt.log) - 1) :
        (/\ Accepted(stt.log[k])
         /\ Accepted(stt.log[k + 1])
         /\ stt.log[k].bytes = stt.log[k + 1].bytes
         /\ stt.log[k].resp.status = "200") =>
            /\ stt.log[k + 1].resp.status = "200"
            /\ stt.log[k + 1].resp.remoteCalls = 0
            /\ stt.log[k + 1].resp.cached
            /\ stt.log[k + 1].resp.text = stt.log[k].resp.text

\* the same bytes under two file names: transcribed once, then served cached
C7_Witness ==
    \E k \in 1..(Len(stt.log) - 1) :
        /\ stt.log[k].bytes = stt.log[k + 1].bytes
        /\ stt.log[k].file # stt.log[k + 1].file
        /\ stt.log[k].resp.remoteCalls = 1
        /\ stt.log[k].resp.status = "200"
        /\ ~ stt.log[k].resp.cached
        /\ stt.log[k + 1].resp.cached
        /\ stt.log[k + 1].resp.text = stt.log[k].resp.text

\* C8: in /api/recommend no remote audio or cover generation call is started
\* before the response of that request has been sent; the handler only
\* computes the URLs and schedules the task.
C8_GenerationAfterResponse ==
    \A i \in Reqs :
        (req[i].ttsCalls > 0 \/ req[i].imgCalls > 0 \/ req[i].tpc \notin {"none", "queued"}) =>
            /\ req[i].path = "http"
            /\ req[i].pc = "sent"
            /\ req[i].resp.audio_url # <<>>

\* the handler has returned with the task queued and nothing generated yet,
\* while another request's task has made its remote calls after its response
C8_Witness ==
    \E i, j \in Reqs :
        /\ req[i].pc = "returned"
        /\ req[i].tpc = "queued"
        /\ req[j].pc = "sent"
        /\ req[j].ttsCalls = 1
        /\ req[j].imgCalls = 1

\* C9: a failure inside the deferred task is swallowed: no exception leaves
\* the task, and the response already sent is unchanged by the task.
C9_TaskFailuresSwallowed ==
    [][ \A i \in Reqs :
          /\ req'[i].tpc # "crashed"
          /\ req[i].pc = "sent" => (req'[i].pc = "sent" /\ req'[i].resp = req[i].resp) ]_vars

\* both remote calls of a task failed and the task ran to its end
C9_Witness ==
    \E i \in Reqs :
        /\ req[i].pc = "sent"
        /\ req[i].tpc = "done"
        /\ req[i].ttsCalls = 1
        /\ req[i].imgCalls = 1
        /\ audio_name(req[i]) \notin dirs.stt
        /\ img_name(req[i]) \notin dirs.img

\* C10: a remote-service failure never lets an exception escape the HTTP
\* request handler.
C10_NoExceptionEscapes ==
    \A i \in Reqs : req[i].path = "http" => req[i].pc # "raised"

\* C11: when a chat completion raises in any round, the error leaves
\* recommend_with_toolcall at once: the raising call is the last chat call
\* (none after it, no retry) and no result tuple is returned.
C11_ChatErrorPropagates ==
    /\ \A k \in 1..Len(lp.replies) :
          lp.replies[k].kind = "raise" =>
              /\ k = Len(lp.replies)
              /\ lp.calls = k
              /\ lp.status = "raised"
              /\ lp.answer = ""
    /\ lp.status = "raised" => LastOr(lp.replies, RaiseReply).kind = "raise"

\* the chat call of a later round raised, after a tool round that captured
\* a title and a summary
C11_Witness ==
    /\ lp.status = "raised"
    /\ lp.calls >= 2
    /\ lp.replies[lp.calls].kind = "raise"
    /\ lp.chosen_title # <<>>
    /\ lp.chosen_full # ""
    /\ lp.answer = ""

\* every entry of mapping m is in mapping n with the same transcript
KeptIn(m, n) == \A h \in DOMAIN m : h \in DOMAIN n /\ n[h] = m[h]

\* C12: the transcript cache is write-once: over any sequence of uploads no
\* request removes a key or changes the transcript a content hash maps to
\* (in STT_CACHE or in transcripts.json), and a request that is refused,
\* fails in transcription or is served from the cache adds no entry.
C12_CacheWriteOnce ==
    [][ /\ KeptIn(stt.cache, stt'.cache)
        /\ KeptIn(stt.disk, stt'.disk)
        /\ LET e == stt'.log[Len(stt'.log)]
           IN  (e.resp.status # "200" \/ e.resp.cached) =>
                   (stt'.cache = stt.cache /\ stt'.disk = stt.disk) ]_vars

\* a transcript is stored, a transcription of other bytes fails and leaves
\* the cache alone, and the first bytes are then served from the cache
C12_Witness ==
    /\ Len(stt.log) = 3
    /\ stt.log[1].resp.status = "200"
    /\ ~ stt.log[1].resp.cached
    /\ stt.log[2].resp.status = "500"
    /\ stt.log[2].bytes # stt.log[1].bytes
    /\ stt.log[3].bytes = stt.log[1].bytes
    /\ stt.log[3].resp.cached
    /\ stt.log[3].resp.text = stt.log[1].resp.text
    /\ DOMAIN stt.cache = {_sha1_file(stt.log[1].bytes)}

\* the reply of chat call k is a plain one, it is the last chat call, and the
\* loop returned `answer` with the title and the summary captured before it
EndsLoopWith(k, answer) ==
    /\ k = Len(lp.replies)
    /\ lp.calls = k
    /\ lp.status = "returned"
    /\ lp.answer = answer
    /\ lp.chosen_title = LastCapturedTitle(lp.replies)
    /\ lp.chosen_full = LastCapturedSummary(lp.replies)

\* C13 as stated: the first chat reply with no tool request ends the loop:
\* its text is returned as the final answer with the title and the summary
\* captured so far, and no chat call follows it.
C13_PlainReplyTextReturned ==
    \A k \in 1..Len(lp.replies) :
        lp.replies[k].kind = "plain" => EndsLoopWith(k, lp.replies[k].content)

\* C13 amended: ... its text, or the fixed "couldn't generate a response"
\* sentence when the reply has no text, is returned as the final answer ...
C13_PlainReplyEndsLoop ==
    \A k \in 1..Len(lp.replies) :
        lp.replies[k].kind = "plain" =>
            EndsLoopWith(k, IF lp.replies[k].content # "" THEN lp.replies[k].content
                            ELSE FALLBACK_ANSWER)

\* a tool round that captured a title and a summary, then a plain reply
\* whose text is returned with them
C13_Witness ==
    /\ lp.status = "returned"
    /\ lp.calls >= 2
    /\ lp.replies[lp.calls].kind = "plain"
    /\ lp.replies[lp.calls].content = "Answer1"
    /\ lp.answer = "Answer1"
    /\ lp.chosen_title # <<>>
    /\ lp.chosen_full # ""

\* request i's task makes its exists() test for the audio in this step
ChecksAudio(i) == req[i].tpc = "queued" /\ req'[i].tpc # "queued"

\* C14: the exists() test is all that stands between a deferred task and
\* the remote call: a task that makes the test while another task's call
\* for the same answer text (or the same title) is in flight and no file is
\* there yet starts the remote call too, so that both calls are made before
\* either file exists.
C14_CheckIgnoresCallsInFlight ==
    [][ \A i, j \in Reqs :
          /\ (/\ i # j
              /\ req[j].tpc = "tts_call"
              /\ ChecksAudio(i)
              /\ req[i].answer = req[j].answer
              /\ audio_name(req[i]) \notin dirs.stt) =>
                 /\ req'[i].tpc = "tts_call"
                 /\ req'[i].ttsCalls = req[i].ttsCalls + 1
                 /\ req'[j].tpc = "tts_call"
                 /\ audio_name(req[i]) \notin dirs'.stt
          /\ (/\ i # j
              /\ req[j].tpc = "img_call"
              /\ ChecksCover(i)
              /\ req[i].picked_title = req[j].picked_title
              /\ img_name(req[i]) \notin dirs.img) =>
                 /\ req'[i].tpc = "img_call"
                 /\ req'[i].imgCalls = req[i].imgCalls + 1
                 /\ req'[j].tpc = "img_call"
                 /\ img_name(req[i]) \notin dirs'.img ]_vars

\* two requests with the same answer text: both tasks passed the exists()
\* test and both speech calls are in flight, with no audio on disk
C14_Witness ==
    \E i, j \in Reqs :
        /\ i # j
        /\ req[i].path = "http"
        /\ req[j].path = "http"
        /\ req[i].answer = req[j].answer
        /\ req[i].tpc = "tts_call"
        /\ req[j].tpc = "tts_call"
        /\ req[i].ttsCalls = 1
        /\ req[j].ttsCalls = 1
        /\ audio_name(req[i]) \notin dirs.stt

\* the same for two requests with the same title: both cover calls are in
\* flight, with no cover on disk
C14_WitnessCover ==
    \E i, j \in Reqs :
        /\ SameTitle(i, j)
        /\ req[i].tpc = "img_call"
        /\ req[j].tpc = "img_call"
        /\ req[i].imgCalls = 1
        /\ req[j].imgCalls = 1
        /\ img_name(req[i]) \notin dirs.img

\* no speech or image generation of any task has failed so far
NoGenerationFailed == \A j \in Reqs : ~ req[j].ttsFailed /\ ~ req[j].imgFailed

\* C15: for every /api/recommend response that carries an audio_url (an
\* image_url), if no speech or image generation fails, then once the
\* request's deferred task has finished a file exists at the path the URL
\* names: the hash of the answer text for the audio, the hash of
\* "cover:"+title for the image.
C15_FileBehindEveryUrl ==
    \A i \in Reqs :
        (req[i].path = "http" /\ req[i].tpc = "done" /\ NoGenerationFailed) =>
            /\ req[i].resp.audio_url # <<>> =>
                   /\ req[i].resp.audio_url = <<"/static/stt", _hash_text(req[i].resp.answer)>>
                   /\ _hash_text(req[i].resp.answer) \in dirs.stt
            /\ req[i].resp.image_url # <<>> =>
                   /\ req[i].resp.image_url =
                          <<"/static/img", _hash_text(<<"cover:">> \o req[i].resp.title)>>
                   /\ _hash_text(<<"cover:">> \o req[i].resp.title) \in dirs.img

\* the tool-result messages of the history that answer tool call `id`
ToolResultsFor(messages, id) ==
    {k \in 1..Len(messages) : messages[k].role = "tool" /\ messages[k].tool_call_id = id}

\* C16: between two chat calls the message history holds, for every tool
\* call of every assistant message appended, exactly one tool-result message
\* with that call's tool_call_id, whatever the tool name or the title.
C16_EveryToolCallAnswered ==
    \A m \in 1..Len(lp.messages) :
        lp.messages[m].role = "assistant" =>
            \A t \in 1..Len(lp.messages[m].tool_calls) :
                Cardinality(ToolResultsFor(lp.messages, lp.messages[m].tool_calls[t].id)) = 1

\* C16 for the calls of the declared tool alone: each has its one result,
\* right after the assistant message and in the order of the calls
C16_LookupCallsAnswered ==
    \A m \in 1..Len(lp.messages) :
        lp.messages[m].role = "assistant" =>
            \A t \in 1..Len(lp.messages[m].tool_calls) :
                LET tc == lp.messages[m].tool_calls[t] IN
                tc.name = GSBT =>
                    /\ Cardinality(ToolResultsFor(lp.messages, tc.id)) = 1
                    /\ \A k \in ToolResultsFor(lp.messages, tc.id) :
                          /\ k > m
                          /\ lp.messages[k].content = get_summary_by_title(strip(tc.title))

\* C17: the title and the summary recommend_with_toolcall returns come from
\* the same tool call: whenever the returned title is not empty, the
\* returned summary is the lookup result for that title.
C17_TitleAndSummaryAgree ==
    (lp.status = "returned" /\ lp.chosen_title # <<>>) =>
        lp.chosen_full = get_summary_by_title(lp.chosen_title)

\* C17 for runs whose lookup calls all carry a title and get a text back:
\* the two captures then move together
AllCallsCapture(replies) ==
    \A k \in 1..Len(LookupCalls(replies)) :
        /\ strip(LookupCalls(replies)[k].title) # <<>>
        /\ get_summary_by_title(strip(LookupCalls(replies)[k].title)) # ""

C17_AgreeWhenAllCallsCapture ==
    (lp.status = "returned" /\ lp.chosen_title # <<>> /\ AllCallsCapture(lp.replies)) =>
        lp.chosen_full = get_summary_by_title(lp.chosen_title)

====
